---- MODULE Spec2Model ----
(***************************************************************************)
(* Model of src/lib/GaugeComponent/hooks/throttle.ts: the closure state of *)
(* one throttled wrapper (timeoutId, lastArgs, lastCallTime), the host     *)
(* facilities it uses (Date.now, setTimeout, clearTimeout) and a log of    *)
(* what happened, against which the properties of the throttle are stated. *)
(***************************************************************************)
EXTENDS Integers, Sequences, FiniteSets, TLC

\* ---- bounds of the model ------------------------------------------------
MaxWait    == 2      \* wait is drawn from 0..MaxWait
MaxTime    == 3      \* Date.now() stays at or below MaxTime
MaxBack    == 1      \* the clock can be set back as far as -MaxBack
MaxOps     == 4      \* calls, cancel() calls, call-backs and clock changes in a run
MaxReenter == 1      \* invocations of func that call back or raise in one run
MaxBusy    == 1      \* milliseconds func may run before it calls back

\* The host keeps its timers on a millisecond clock of its own, which is not
\* in step with Date.now(): a callback can run when Date.now() has advanced
\* by one millisecond less than the delay given to setTimeout.
Early == 1

Null == 0            \* null of timeoutId and lastArgs (handles and args are > 0)

VARIABLES
  wait,          \* the wait argument of throttle(func, wait)
  now,           \* the value Date.now() returns
  timeoutId,     \* closure variable: handle of the scheduled timer, or Null
  lastArgs,      \* closure variable: arguments kept for the timer, or Null
  lastCallTime,  \* closure variable
  timers,        \* host: live timers, a set of [id, left]
  nextId,        \* host: number of handles setTimeout has handed out
  hist,          \* log of events: calls, timers, invocations, firings, cancels
  ncalls,        \* number of wrapper calls made so far
  ncancels,      \* number of cancel() calls made by the caller so far
  nops,          \* number of steps of the caller, of func calling back from a
                 \* timer callback, and of clock changes so far
  nre,           \* number of invocations of func that called back or raised
  setBack        \* the wall clock was set back since func was last invoked

vars == <<wait, now, timeoutId, lastArgs, lastCallTime, timers, nextId, hist,
          ncalls, ncancels, nops, nre, setBack>>

\* ---- the log ------------------------------------------------------------
\* op "call":    a wrapper call; args its arguments; br the branch it took
\* op "timeout": setTimeout was called; args the new handle; n the delay
\* op "fn":      func was invoked; args what it was given; br "sync" or "timer"
\* op "fire":    the host ran the timer callback; args the handle of the timer
\* op "cancel":  cancel() was called
\* op "raise":   func raised; args what func had been given; br who receives
\*               the error: "caller" (of the wrapper) or "host" (of the timer)
Event(op, t, args, br, n) ==
  [op |-> op, t |-> t, args |-> args, br |-> br, n |-> n]

\* ---- the closure state and the host's timers as one value ----------------
St == [timeoutId |-> timeoutId, lastArgs |-> lastArgs,
       lastCallTime |-> lastCallTime, timers |-> timers, nextId |-> nextId,
       hist |-> hist, ncalls |-> ncalls, exc |-> FALSE, now |-> now,
       busy |-> 0]

\* What func does when it is invoked: it returns ("none"), it calls the
\* wrapper ("call") or cancel() ("cancel") before it returns, or it raises
\* ("throw"). The field exc of the state tells that an error is propagating.
Reentries == {"call", "cancel"}

RECURSIVE throttled(_, _, _, _, _)

\* A cancel() that forgets the handle without clearing the host's timer.
cancel_keepTimer(st, t) ==
  LET s0 == [st EXCEPT !.hist = Append(@, Event("cancel", t, Null, "cancel", 0))]
  IN [s0 EXCEPT !.timeoutId = Null, !.lastArgs = Null, !.lastCallTime = 0]

\* A cancel() that does not reset lastCallTime.
cancel_keepTime(st, t) ==
  LET s0 == [st EXCEPT !.hist = Append(@, Event("cancel", t, Null, "cancel", 0))]
      s1 == IF s0.timeoutId # Null
            THEN [s0 EXCEPT !.timers = {tm \in @ : tm.id # s0.timeoutId},
                            !.timeoutId = Null]
            ELSE s0
  IN [s1 EXCEPT !.lastArgs = Null]

\* throttled.cancel(), called when Date.now() = t.
cancel(st, t) ==
  LET s0 == [st EXCEPT !.hist = Append(@, Event("cancel", t, Null, "cancel", 0))]
      s1 == IF s0.timeoutId # Null
            THEN [s0 EXCEPT !.timers = {tm \in @ : tm.id # s0.timeoutId},
                            !.timeoutId = Null]
            ELSE s0
  IN [s1 EXCEPT !.lastArgs = Null, !.lastCallTime = 0]

\* func, invoked when Date.now() = t, runs for st.busy milliseconds: Date.now()
\* advances and every live timer is that much closer to being due.
elapse(st, t) ==
  [st EXCEPT !.now = t + st.busy,
             !.timers = {[tm EXCEPT !.left = IF @ > st.busy THEN @ - st.busy
                                              ELSE 0] : tm \in @},
             !.busy = 0]

\* func.apply(this, args): the invocation is logged; re is what func does
\* before it returns, after running for st.busy milliseconds. A call func
\* makes reads Date.now() anew and passes the next unused argument list, and
\* the invocation of func it may lead to returns at once. Nothing in
\* throttle.ts catches an error func raises: it leaves the wrapper towards
\* the caller, or the timer callback towards the host.
func(w, st, t, args, br, re) ==
  LET s1 == [st EXCEPT !.hist = Append(@, Event("fn", t, args, br, 0))]
      s2 == elapse(s1, t)
  IN IF re = "call" THEN throttled(w, s2, s2.now, s2.ncalls + 1, "none")
     ELSE IF re = "cancel" THEN cancel(s2, s2.now)
     ELSE IF re = "throw"
     THEN [s1 EXCEPT !.exc = TRUE,
                     !.hist = Append(@, Event("raise", t, args,
                                 IF br = "sync" THEN "caller" ELSE "host", 0))]
     ELSE s1

\* clearTimeout(id): the host forgets the timer with that handle.
clearTimeout(st, id) ==
  [st EXCEPT !.timers = {tm \in @ : tm.id # id}]

\* setTimeout(callback, delay): a new live timer under a fresh handle, which
\* is the value of nextId afterwards.
setTimeout(st, t, delay) ==
  [st EXCEPT !.nextId = @ + 1,
             !.timers = @ \cup {[id |-> st.nextId + 1, left |-> delay]},
             !.hist = Append(@, Event("timeout", t, st.nextId + 1, "set", delay))]

\* The time since the last invocation taken as a distance.
Remaining_abs(w, t, last) == w - (IF t >= last THEN t - last ELSE last - t)

\* const remaining = wait - (now - lastCallTime)
Remaining(w, t, last) == w - (t - last)

\* The second comparison turned around: remaining < wait.
IsLeading_flipped(w, remaining) == remaining <= 0 \/ remaining < w

\* The first comparison made strict: remaining < 0.
IsLeading_strict(w, remaining) == remaining < 0 \/ remaining > w

\* Without the guard remaining > wait.
IsLeading_noGuard(w, remaining) == remaining <= 0

\* if (remaining <= 0 || remaining > wait)
IsLeading(w, remaining) == remaining <= 0 \/ remaining > w

\* The branch a wrapper call takes.
Branch(w, st, t) ==
  IF IsLeading(w, Remaining(w, t, st.lastCallTime)) THEN "leading"
  ELSE IF st.timeoutId = Null THEN "deferred"
  ELSE "suppressed"

\* A leading branch that sets lastCallTime only after func has returned.
leadingBranch_stampAfter(w, st, t, args, re) ==
  LET s1 == IF st.timeoutId # Null
            THEN [clearTimeout(st, st.timeoutId) EXCEPT !.timeoutId = Null]
            ELSE st
      s2 == func(w, s1, t, args, "sync", re)
  IN IF s2.exc THEN s2 ELSE [s2 EXCEPT !.lastCallTime = t]

\* A leading branch that forgets the handle without clearing the timer.
leadingBranch_keepTimer(w, st, t, args, re) ==
  func(w, [st EXCEPT !.timeoutId = Null, !.lastCallTime = t], t, args,
       "sync", re)

\* A leading branch that does not set lastCallTime.
leadingBranch_noStamp(w, st, t, args, re) ==
  LET s1 == IF st.timeoutId # Null
            THEN [clearTimeout(st, st.timeoutId) EXCEPT !.timeoutId = Null]
            ELSE st
  IN func(w, s1, t, args, "sync", re)

\* The body of the first branch of throttled.
leadingBranch(w, st, t, args, re) ==
  LET s1 == IF st.timeoutId # Null
            THEN [clearTimeout(st, st.timeoutId) EXCEPT !.timeoutId = Null]
            ELSE st
      s2 == [s1 EXCEPT !.lastCallTime = t]
  IN func(w, s2, t, args, "sync", re)

\* A deferred branch that schedules the timer without storing the arguments.
deferredBranch_noArgs(st, t, args, remaining) ==
  LET s2 == setTimeout(st, t, remaining)
  IN [s2 EXCEPT !.timeoutId = s2.nextId]

\* A deferred branch that schedules the timer with no delay.
deferredBranch_noDelay(st, t, args, remaining) ==
  LET s1 == [st EXCEPT !.lastArgs = args]
      s2 == setTimeout(s1, t, 0)
  IN [s2 EXCEPT !.timeoutId = s2.nextId]

\* A deferred branch that keeps arguments already stored in lastArgs.
deferredBranch_keepArgs(st, t, args, remaining) ==
  LET s1 == [st EXCEPT !.lastArgs = IF @ # Null THEN @ ELSE args]
      s2 == setTimeout(s1, t, remaining)
  IN [s2 EXCEPT !.timeoutId = s2.nextId]

\* The body of the branch else if (!timeoutId) of throttled.
deferredBranch(st, t, args, remaining) ==
  LET s1 == [st EXCEPT !.lastArgs = args]
      s2 == setTimeout(s1, t, remaining)
  IN [s2 EXCEPT !.timeoutId = s2.nextId]

\* A suppressed call that keeps its arguments for the trailing invocation.
suppressedBranch_latest(st, t, args) == [st EXCEPT !.lastArgs = args]

\* What throttled does when neither condition holds: nothing.
suppressedBranch(st, t, args) == st

\* throttled(...args), called when Date.now() = t.
throttled(w, st, t, args, re) ==
  LET remaining == Remaining(w, t, st.lastCallTime)
      s0 == [st EXCEPT !.ncalls = @ + 1,
                       !.hist = Append(@, Event("call", t, args,
                                                Branch(w, st, t), 0))]
  IN IF IsLeading(w, remaining) THEN leadingBranch(w, s0, t, args, re)
     ELSE IF s0.timeoutId = Null THEN deferredBranch(s0, t, args, remaining)
     ELSE suppressedBranch(s0, t, args)

\* A timer callback that forgets to restart the window at the firing time.
timerCallback_noStamp(w, st, t, re) ==
  LET s1 == [st EXCEPT !.timeoutId = Null]
      s2 == func(w, s1, t, s1.lastArgs, "timer", re)
  IN IF s1.lastArgs # Null
     THEN IF s2.exc THEN s2 ELSE [s2 EXCEPT !.lastArgs = Null]
     ELSE s1

\* The callback given to setTimeout, run when Date.now() = t. When func
\* raises, the statement lastArgs = null after it is not reached.
timerCallback(w, st, t, re) ==
  LET s1 == [st EXCEPT !.lastCallTime = t, !.timeoutId = Null]
      s2 == func(w, s1, t, s1.lastArgs, "timer", re)
  IN IF s1.lastArgs # Null
     THEN IF s2.exc THEN s2 ELSE [s2 EXCEPT !.lastArgs = Null]
     ELSE s1

\* The host takes a due timer off its list and runs its callback.
hostFire(w, st, t, id, re) ==
  timerCallback(w, [st EXCEPT !.timers = {tm \in @ : tm.id # id},
                              !.hist = Append(@, Event("fire", t, id, "fire", 0))],
                t, re)

\* ---- the state machine ---------------------------------------------------
Commit(s) ==
  /\ timeoutId' = s.timeoutId
  /\ lastArgs' = s.lastArgs
  /\ lastCallTime' = s.lastCallTime
  /\ timers' = s.timers
  /\ nextId' = s.nextId
  /\ hist' = s.hist
  /\ ncalls' = s.ncalls
  /\ now' = s.now
  /\ setBack' = IF \E k \in (Len(hist) + 1)..Len(s.hist) : s.hist[k].op = "fn"
                THEN FALSE
                ELSE setBack

\* throttle(func, wait): the state after construction.
Init ==
  /\ wait \in 0..MaxWait
  /\ now = 0
  /\ timeoutId = Null
  /\ lastArgs = Null
  /\ lastCallTime = 0
  /\ timers = {}
  /\ nextId = 0
  /\ hist = <<>>
  /\ ncalls = 0
  /\ ncancels = 0
  /\ nops = 0
  /\ nre = 0
  /\ setBack = FALSE

\* A wrapper call by the caller. The k-th wrapper call passes the argument list k, so that an invocation of func identifies the call whose arguments
\* it was given.
Call ==
  /\ nops < MaxOps
  /\ nops' = nops + 1
  /\ Commit(throttled(wait, St, now, ncalls + 1, "none"))
  /\ UNCHANGED <<wait, ncancels, nre>>

\* The host takes a timer for due.
Due(tm) == tm.left <= Early

\* The host runs the callback of a timer it takes for due.
TimerFire ==
  /\ \E tm \in timers :
        /\ Due(tm)
        /\ Commit(hostFire(wait, St, now, tm.id, "none"))
  /\ UNCHANGED <<wait, ncancels, nops, nre>>

\* cancel() called by the caller.
Cancel ==
  /\ nops < MaxOps
  /\ nops' = nops + 1
  /\ ncancels' = ncancels + 1
  /\ Commit(cancel(St, now))
  /\ UNCHANGED <<wait, nre>>

\* One millisecond passes: Date.now() advances and every live timer is one
\* millisecond closer to being due.
Tick ==
  /\ now < MaxTime
  /\ now' = now + 1
  /\ timers' = {[tm EXCEPT !.left = IF @ > 0 THEN @ - 1 ELSE 0] : tm \in timers}
  /\ UNCHANGED <<wait, timeoutId, lastArgs, lastCallTime, nextId, hist,
                 ncalls, ncancels, nops, nre, setBack>>

\* One more millisecond passes after MaxTime, so that a second timer
\* scheduled for the longest wait can come due.
TickBeyond ==
  /\ now = MaxTime
  /\ now' = now + 1
  /\ timers' = {[tm EXCEPT !.left = IF @ > 0 THEN @ - 1 ELSE 0] : tm \in timers}
  /\ UNCHANGED <<wait, timeoutId, lastArgs, lastCallTime, nextId, hist,
                 ncalls, ncancels, nops, nre, setBack>>

\* The wall clock is set back (Date.now() is not monotonic); timers run on
\* elapsed time and are not affected. Setting the clock forward shows nothing
\* new: it is Tick with the timers firing late.
ClockJump ==
  /\ nops < MaxOps
  /\ nops' = nops + 1
  /\ \E t \in (0 - MaxBack)..MaxTime : t < now /\ now' = t
  /\ setBack' = TRUE
  /\ UNCHANGED <<wait, timeoutId, lastArgs, lastCallTime, timers, nextId, hist,
                 ncalls, ncancels, nre>>

\* The times func may run before it does re. cancel() does not read the
\* clock: time func takes before calling it is time that passes after the
\* step.
BusyTimes(re) == IF re = "call" THEN 0..MaxBusy ELSE {0}

\* A wrapper call by the caller that takes the leading branch, where func
\* calls the wrapper or cancel() before it returns.
CallReenter ==
  /\ nops < MaxOps
  /\ nops' = nops + 1
  /\ nre < MaxReenter
  /\ nre' = nre + 1
  /\ Branch(wait, St, now) = "leading"
  /\ \E re \in Reentries : \E d \in BusyTimes(re) :
        /\ now + d <= MaxTime
        /\ Commit(throttled(wait, [St EXCEPT !.busy = d], now, ncalls + 1, re))
  /\ UNCHANGED <<wait, ncancels>>

\* The host runs the callback of a due timer, and func, invoked by the
\* callback, calls the wrapper or cancel() before it returns.
TimerFireReenter ==
  /\ nops < MaxOps
  /\ nops' = nops + 1
  /\ nre < MaxReenter
  /\ nre' = nre + 1
  /\ lastArgs # Null
  /\ \E tm \in timers :
        /\ Due(tm)
        /\ \E re \in Reentries : \E d \in BusyTimes(re) :
              /\ now + d <= MaxTime
              /\ Commit(hostFire(wait, [St EXCEPT !.busy = d], now, tm.id, re))
  /\ UNCHANGED <<wait, ncancels>>

\* A wrapper call by the caller that takes the leading branch, where func
\* raises.
CallThrow ==
  /\ nops < MaxOps
  /\ nops' = nops + 1
  /\ nre < MaxReenter
  /\ nre' = nre + 1
  /\ Branch(wait, St, now) = "leading"
  /\ Commit(throttled(wait, St, now, ncalls + 1, "throw"))
  /\ UNCHANGED <<wait, ncancels>>

\* The host runs the callback of a due timer, and func, invoked by the
\* callback, raises.
TimerFireThrow ==
  /\ nre < MaxReenter
  /\ nre' = nre + 1
  /\ lastArgs # Null
  /\ \E tm \in timers :
        /\ Due(tm)
        /\ Commit(hostFire(wait, St, now, tm.id, "throw"))
  /\ UNCHANGED <<wait, ncancels, nops>>

\* func returns without calling back; Date.now() never goes back.
Next == Call \/ TimerFire \/ Cancel \/ Tick

Spec == Init /\ [][Next]_vars

\* func returns without calling back; the wall clock may be set back.
NextSkew == Call \/ TimerFire \/ Cancel \/ Tick \/ ClockJump

SpecSkew == Init /\ [][NextSkew]_vars

\* func may call back; Date.now() never goes back.
NextReenter ==
  Call \/ TimerFire \/ Cancel \/ Tick \/ CallReenter \/ TimerFireReenter

SpecReenter == Init /\ [][NextReenter]_vars

\* func may call back; Date.now() never goes back and runs one millisecond
\* past MaxTime: two timers of the longest wait fit after the first
\* leading-edge invocation.
NextTwoWindows ==
  \/ Call
  \/ TimerFire
  \/ Cancel
  \/ Tick
  \/ TickBeyond
  \/ CallReenter
  \/ TimerFireReenter

SpecTwoWindows == Init /\ [][NextTwoWindows]_vars

\* func may raise; Date.now() never goes back.
NextThrow ==
  Call \/ TimerFire \/ Cancel \/ Tick \/ CallThrow \/ TimerFireThrow

SpecThrow == Init /\ [][NextThrow]_vars

\* func may call back and the wall clock may be set back.
NextAll ==
  \/ Call
  \/ TimerFire
  \/ Cancel
  \/ Tick
  \/ ClockJump
  \/ CallReenter
  \/ TimerFireReenter

SpecAll == Init /\ [][NextAll]_vars

\* ---- the host's scheduling ------------------------------------------------
\* The clock of the model stops at MaxTime. A timer scheduled by a call made
\* now is due at now + wait at the latest, so calls are made while that is
\* within the time the model covers.
InHorizon == now + wait <= MaxTime

CallLive == InHorizon /\ Call

CallReenterLive == InHorizon /\ CallReenter

TimerFireReenterLive == InHorizon /\ TimerFireReenter

\* func returns without calling back; time passes and the host's event loop
\* runs the callback of a timer that is due.
NextLive == CallLive \/ TimerFire \/ Cancel \/ Tick

SpecLive == Init /\ [][NextLive]_vars /\ WF_vars(Tick) /\ WF_vars(TimerFire)

\* The same host, and func may call back.
NextLiveReenter ==
  CallLive \/ TimerFire \/ Cancel \/ Tick \/ CallReenterLive
     \/ TimerFireReenterLive

SpecLiveReenter ==
  Init /\ [][NextLiveReenter]_vars /\ WF_vars(Tick) /\ WF_vars(TimerFire)

TypeOK ==
  /\ wait \in 0..MaxWait
  /\ now \in (0 - MaxBack)..(MaxTime + 1)
  /\ timeoutId \in 0..(MaxOps + MaxReenter)
  /\ lastArgs \in 0..(MaxOps + MaxReenter)
  /\ Cardinality(timers) <= 1
  /\ setBack \in BOOLEAN

\* ---- reading the log -----------------------------------------------------
Idx == 1..Len(hist)

\* The positions of the log that hold an event with operation op.
At(op) == {i \in Idx : hist[i].op = op}

\* No event with operation op lies strictly between positions i and j.
NoneBetween(op, i, j) == \A k \in (i + 1)..(j - 1) : hist[k].op # op

\* i and j are two consecutive invocations of func.
ConsecutiveFn(i, j) ==
  /\ i < j
  /\ hist[i].op = "fn"
  /\ hist[j].op = "fn"
  /\ NoneBetween("fn", i, j)

\* The wrapper call whose deferred branch scheduled the timer that the host
\* fired at position f of the log: setTimeout is logged right after the call.
SchedulerOf(f) ==
  CHOOSE j \in Idx : /\ j + 1 <= Len(hist)
                     /\ hist[j + 1].op = "timeout"
                     /\ hist[j + 1].args = hist[f].args

\* ---- C1 ------------------------------------------------------------------
\* C1: the first call on a freshly constructed wrapper takes the leading
\* branch, whatever wait and Date.now() are: func is invoked once, inside the
\* call, with the call's arguments, and no timer is scheduled.
C1_FirstCallImmediate ==
  (Len(hist) >= 1 /\ hist[1].op = "call") =>
     /\ hist[1].br = "leading"
     /\ Len(hist) >= 2
     /\ hist[2] = Event("fn", hist[1].t, hist[1].args, "sync", 0)
     /\ (Len(hist) = 2 => (timeoutId = Null /\ timers = {} /\ nextId = 0))

\* ---- C2 ------------------------------------------------------------------
\* C2 (as claimed): any two consecutive invocations of func are at least wait
\* apart, over any sequence of calls, firings and cancel() calls.
C2_RateBound ==
  \A j \in At("fn") : \A i \in At("fn") :
     ConsecutiveFn(i, j) => hist[j].t - hist[i].t >= wait

\* C2 (amended): any two consecutive invocations of func with no cancel()
\* between them are at least wait - 1 apart by Date.now(): the host may run
\* the timer callback one millisecond of Date.now() before the delay is over.
C2_RateBoundNoCancel ==
  \A j \in At("fn") : \A i \in At("fn") :
     (ConsecutiveFn(i, j) /\ NoneBetween("cancel", i, j))
        => hist[j].t - hist[i].t >= wait - Early

\* A leading-edge invocation and, with no cancel() in between, the trailing
\* invocation wait - 1 later, under a wait of at least two milliseconds.
C2_Witness ==
  \E j \in At("fn") : \E i \in At("fn") :
     /\ ConsecutiveFn(i, j)
     /\ NoneBetween("cancel", i, j)
     /\ wait >= 2
     /\ hist[i].br = "sync"
     /\ hist[j].br = "timer"
     /\ hist[j].t - hist[i].t = wait - Early

\* ---- C3 ------------------------------------------------------------------
\* Call j is the wrapper call that follows the leading-edge call i, d
\* milliseconds later with 0 < d < wait, with no cancel() in between.
InWindowAfterLeading(i, j) ==
  /\ i < j
  /\ hist[i].op = "call"
  /\ hist[i].br = "leading"
  /\ hist[j].op = "call"
  /\ hist[j].t - hist[i].t > 0
  /\ hist[j].t - hist[i].t < wait
  /\ NoneBetween("call", i, j)
  /\ NoneBetween("cancel", i, j)

\* What the call j made d milliseconds after the leading-edge call i at t0
\* does: it does not invoke func; it schedules exactly one timer, with delay
\* wait - d; that timer does not fire before t0 + wait - slack by Date.now(),
\* and when it fires func is invoked once with the arguments of call j.
SuppressionWindow(i, j, slack) ==
  /\ hist[j].br = "deferred"
  /\ j + 1 <= Len(hist)
  /\ hist[j + 1].op = "timeout"
  /\ hist[j + 1].n = wait - (hist[j].t - hist[i].t)
  /\ (j + 2 <= Len(hist) => hist[j + 2].op \notin {"timeout", "fn"})
  /\ \A tm \in timers :
        tm.id = hist[j + 1].args => now + tm.left >= hist[i].t + wait
  /\ \A k \in At("fire") :
        hist[k].args = hist[j + 1].args =>
           /\ hist[k].t >= hist[i].t + wait - slack
           /\ k + 1 <= Len(hist)
           /\ hist[k + 1] = Event("fn", hist[k].t, hist[j].args, "timer", 0)
           /\ (k + 2 <= Len(hist) => hist[k + 2].op # "fn")

\* C3 as stated: a call d milliseconds after a leading-edge call at t0,
\* 0 < d < wait, does not invoke func; it schedules exactly one timer, with
\* delay wait - d; that timer does not fire before t0 + wait, and when it
\* fires func is invoked once with the arguments of that second call.
C3_SuppressionWindow ==
  \A j \in At("call") : \A i \in At("call") :
     InWindowAfterLeading(i, j) => SuppressionWindow(i, j, 0)

\* C3 amended: the same, where the timer does not fire before Date.now()
\* reads t0 + wait - 1.
C3_SuppressionWindowEarly ==
  \A j \in At("call") : \A i \in At("call") :
     InWindowAfterLeading(i, j) => SuppressionWindow(i, j, Early)

\* The timer of such a second call has fired when Date.now() read
\* t0 + wait - 1.
C3_Witness ==
  \E j \in At("call") : \E i \in At("call") : \E k \in At("fire") :
     /\ InWindowAfterLeading(i, j)
     /\ hist[k].args = hist[j + 1].args
     /\ hist[k].t = hist[i].t + wait - Early

\* ---- C4 ------------------------------------------------------------------
\* The invocation of func at position k was made by the timer callback of the
\* timer that the call with the same arguments scheduled.
TrailingFromScheduler(k) ==
  /\ k >= 2
  /\ hist[k - 1].op = "fire"
  /\ \E m \in At("timeout") :
        /\ m >= 2
        /\ m < k
        /\ hist[m].args = hist[k - 1].args
        /\ hist[m - 1].op = "call"
        /\ hist[m - 1].args = hist[k].args

\* C4: a wrapper call that arrives while a timer is pending and with
\* 0 < remaining <= wait changes neither lastCallTime nor lastArgs nor the
\* pending timer and does not invoke func; and every trailing invocation
\* carries the arguments of the call that scheduled its timer.
C4_SuppressedDropped ==
  /\ [][ ( /\ ncalls' = ncalls + 1
           /\ nre' = nre
           /\ timeoutId # Null
           /\ Remaining(wait, now, lastCallTime) > 0
           /\ Remaining(wait, now, lastCallTime) <= wait )
         => ( /\ UNCHANGED <<timeoutId, lastArgs, lastCallTime, timers, nextId>>
              /\ hist' = Append(hist, Event("call", now, ncalls + 1,
                                            "suppressed", 0)) ) ]_vars
  /\ [](\A k \in At("fn") : hist[k].br = "timer" => TrailingFromScheduler(k))

\* A call was suppressed while a timer was pending, and that timer has fired
\* and delivered other arguments than those of the suppressed call.
C4_Witness ==
  \E m, c, k \in Idx :
     /\ m < c
     /\ c < k
     /\ hist[m].op = "timeout"
     /\ hist[c].op = "call"
     /\ hist[c].br = "suppressed"
     /\ hist[k].op = "fn"
     /\ hist[k].br = "timer"
     /\ hist[k - 1].args = hist[m].args
     /\ hist[k].args # hist[c].args

\* ---- C5 ------------------------------------------------------------------
\* Every wrapper call after the leading-edge call i arrives before the window
\* of i ends, and cancel() is not called after i.
AllInWindow(i) ==
  /\ hist[i].op = "call"
  /\ hist[i].br = "leading"
  /\ \A k \in (i + 1)..Len(hist) :
        /\ hist[k].op # "cancel"
        /\ (hist[k].op = "call" => hist[k].t < hist[i].t + wait)

\* The invocations of func from the leading-edge call i on, before t0 + 2*wait.
FnInTwoWindows(i) ==
  {k \in (i + 1)..Len(hist) :
      hist[k].op = "fn" /\ hist[k].t < hist[i].t + 2 * wait}

\* C5 as stated: if the calls that follow a leading-edge invocation at t0
\* all arrive within its window, func is invoked at most twice in
\* [t0, t0 + 2*wait).
C5_CoalescingCount ==
  \A i \in At("call") : AllInWindow(i) => Cardinality(FnInTwoWindows(i)) <= 2

\* The invocations of func from the leading-edge call i on, before
\* t0 + 2*(wait - Early): each of the two windows is shorter by the time a
\* timer callback may run early.
FnInTwoEarlyWindows(i) ==
  {k \in (i + 1)..Len(hist) :
      hist[k].op = "fn" /\ hist[k].t < hist[i].t + 2 * (wait - Early)}

\* C5 amended: with a clock that is not set back, if the calls that follow a
\* leading-edge invocation at t0 all arrive within its window and cancel()
\* is not called, func is invoked at most twice in [t0, t0 + 2*wait - 2);
\* a third invocation comes at t0 + 2*wait - 2 at the earliest.
C5_CoalescingEarly ==
  \A i \in At("call") :
     AllInWindow(i) => Cardinality(FnInTwoEarlyWindows(i)) <= 2

\* With wait of 2 or more, two calls arrived in the window of a leading-edge
\* call at t0; the leading and the trailing invocation fall into
\* [t0, t0 + 2*wait - 2), and a third invocation has come at t0 + 2*wait - 2.
C5_Witness ==
  \E i \in At("call") :
     /\ wait >= 2
     /\ AllInWindow(i)
     /\ Cardinality({k \in Idx : k > i /\ hist[k].op = "call"}) >= 2
     /\ Cardinality(FnInTwoEarlyWindows(i)) = 2
     /\ \E k \in At("fn") :
           k > i /\ hist[k].t = hist[i].t + 2 * (wait - Early)

\* ---- C6 ------------------------------------------------------------------
\* Position i is the latest invocation of func before the wrapper call j,
\* and j arrives wait or more after it.
AfterWindow(i, j) ==
  /\ i < j
  /\ hist[i].op = "fn"
  /\ hist[j].op = "call"
  /\ hist[j].t >= hist[i].t + wait
  /\ NoneBetween("fn", i, j)

\* C6: a wrapper call arriving wait or more after the latest invocation of
\* func takes the leading branch: func is invoked inside the call with the
\* call's arguments and lastCallTime becomes the time of the call.
C6_PostWindowReset ==
  \A j \in At("call") : \A i \in At("fn") :
     AfterWindow(i, j) =>
        /\ hist[j].br = "leading"
        /\ j + 1 <= Len(hist)
        /\ hist[j + 1] = Event("fn", hist[j].t, hist[j].args, "sync", 0)
        /\ (Len(hist) = j + 1 =>
              (lastCallTime = hist[j].t /\ timeoutId = Null /\ timers = {}))

\* ---- C7 ------------------------------------------------------------------
\* The timer scheduled at position m had not fired when cancel() was called
\* at position c.
CancelledBeforeFiring(m, c) ==
  /\ 2 <= m
  /\ m < c
  /\ hist[m].op = "timeout"
  /\ hist[c].op = "cancel"
  /\ \A k \in (m + 1)..(c - 1) :
        ~(hist[k].op = "fire" /\ hist[k].args = hist[m].args)

\* C7: once cancel() is called before a scheduled timer fires, the callback
\* of that timer never runs and func is never invoked with the arguments of
\* the call that scheduled it.
C7_CancelClearsPending ==
  \A c \in At("cancel") : \A m \in At("timeout") :
     CancelledBeforeFiring(m, c) =>
        /\ \A tm \in timers : tm.id # hist[m].args
        /\ \A k \in (c + 1)..Len(hist) :
              /\ ~(hist[k].op = "fire" /\ hist[k].args = hist[m].args)
              /\ ~(hist[k].op = "fn" /\ hist[k].args = hist[m - 1].args)

\* cancel() was called while a timer was pending, and afterwards a later call
\* scheduled another timer, which fired and invoked func.
C7_Witness ==
  \E m, c, k \in Idx :
     /\ CancelledBeforeFiring(m, c)
     /\ NoneBetween("call", m, c)
     /\ c < k
     /\ hist[k].op = "fn"
     /\ hist[k].br = "timer"

\* ---- C8 ------------------------------------------------------------------
\* C8: the wrapper call that follows cancel() takes the leading branch,
\* whatever Date.now() is: func is invoked inside the call with its arguments.
C8_CancelThenLeading ==
  \A j \in At("call") :
     (j >= 2 /\ hist[j - 1].op = "cancel") =>
        /\ hist[j].br = "leading"
        /\ j + 1 <= Len(hist)
        /\ hist[j + 1] = Event("fn", hist[j].t, hist[j].args, "sync", 0)

\* ---- C9 ------------------------------------------------------------------
\* C9: cancel() does not invoke func and leaves no timer, no lastArgs and
\* lastCallTime = 0; a second cancel() in that state changes none of them.
C9_CancelIdempotent ==
  [][ (ncancels' = ncancels + 1) =>
        /\ timeoutId' = Null
        /\ timers' = {}
        /\ lastArgs' = Null
        /\ lastCallTime' = 0
        /\ nextId' = nextId
        /\ hist' = Append(hist, Event("cancel", now, Null, "cancel", 0))
        /\ LET again == cancel(St', now')
           IN /\ again.timeoutId = timeoutId'
              /\ again.timers = timers'
              /\ again.lastArgs = lastArgs'
              /\ again.lastCallTime = lastCallTime'
              /\ again.nextId = nextId'
              /\ again.hist = Append(hist', Event("cancel", now', Null,
                                                  "cancel", 0)) ]_vars

\* cancel() has just been called while a timer was pending and lastCallTime
\* was not 0.
C9_Witness ==
  /\ Len(hist) >= 4
  /\ hist[Len(hist)].op = "cancel"
  /\ hist[Len(hist) - 1].op = "timeout"
  /\ hist[Len(hist) - 3].op = "fn"
  /\ hist[Len(hist) - 3].t # 0
  /\ timeoutId = Null

\* ---- C10 -----------------------------------------------------------------
\* C10: with wait = 0 every wrapper call takes the leading branch and invokes
\* func once, inside the call, with its own arguments, and no timer is ever
\* scheduled, whatever the clock does.
C10_ZeroWaitPassThrough ==
  wait = 0 =>
     /\ nextId = 0
     /\ timers = {}
     /\ timeoutId = Null
     /\ Cardinality(At("fn")) = ncalls
     /\ \A j \in At("call") :
           /\ hist[j].br = "leading"
           /\ j + 1 <= Len(hist)
           /\ hist[j + 1] = Event("fn", hist[j].t, hist[j].args, "sync", 0)

\* With wait = 0, a call was made at the same clock value as the call before
\* it, and another at a smaller clock value than the call before it.
C10_Witness ==
  /\ wait = 0
  /\ \E i, j \in At("call") : i < j /\ hist[j].t = hist[i].t
  /\ \E i, j \in At("call") : i < j /\ hist[j].t < hist[i].t

\* ---- C11 -----------------------------------------------------------------
\* The branch the code's conditions select for a call made in this state.
RuleBranch ==
  IF wait - (now - lastCallTime) <= 0 \/ wait - (now - lastCallTime) > wait
  THEN "leading"
  ELSE IF timeoutId = Null THEN "deferred" ELSE "suppressed"

\* The error raised at position r comes from the invocation of func just
\* before it, and func is never invoked again with those arguments.
RaisedOnce(r) ==
  /\ r >= 3
  /\ hist[r - 1].op = "fn"
  /\ hist[r - 1].args = hist[r].args
  /\ hist[r - 1].t = hist[r].t
  /\ Cardinality({k \in At("fn") : hist[k].args = hist[r].args}) = 1

\* C11: an error func raises in a leading-edge invocation reaches the caller
\* with lastCallTime = now and no timer pending; an error func raises in a
\* timer-fired invocation goes to the host and func is not invoked again for
\* those arguments; after either, wrapper calls take the branch the rules
\* select, with that branch's effect.
C11_ExceptionPropagation ==
  /\ [](\A r \in At("raise") :
          /\ RaisedOnce(r)
          /\ (hist[r - 1].br = "sync" =>
                /\ hist[r].br = "caller"
                /\ hist[r - 2] = Event("call", hist[r].t, hist[r].args,
                                       "leading", 0))
          /\ (hist[r - 1].br = "timer" =>
                /\ hist[r].br = "host"
                /\ hist[r - 2].op = "fire")
          /\ (r = Len(hist) =>
                /\ lastCallTime = hist[r].t
                /\ timeoutId = Null
                /\ timers = {}))
  /\ [][ (At("raise") # {} /\ ncalls' = ncalls + 1 /\ nre' = nre) =>
           /\ hist'[Len(hist) + 1] = Event("call", now, ncalls + 1, RuleBranch, 0)
           /\ (RuleBranch = "leading" =>
                 /\ hist' = Append(Append(hist, hist'[Len(hist) + 1]),
                                   Event("fn", now, ncalls + 1, "sync", 0))
                 /\ lastCallTime' = now
                 /\ timeoutId' = Null
                 /\ timers' = {})
           /\ (RuleBranch = "deferred" =>
                 /\ lastArgs' = ncalls + 1
                 /\ timeoutId' = nextId + 1
                 /\ timers' = {[id |-> nextId + 1,
                                left |-> wait - (now - lastCallTime)]}
                 /\ lastCallTime' = lastCallTime)
           /\ (RuleBranch = "suppressed" =>
                 UNCHANGED <<timeoutId, lastArgs, lastCallTime, timers>>) ]_vars

\* func raised in a leading-edge invocation; a later call was deferred and
\* its timer fired and invoked func with that call's arguments.
C11_Witness ==
  \E r \in At("raise") : \E j \in At("call") : \E k \in At("fn") :
     /\ hist[r].br = "caller"
     /\ r < j
     /\ j < k
     /\ hist[j].br = "deferred"
     /\ hist[k].br = "timer"
     /\ hist[k].args = hist[j].args

\* ---- C12 -----------------------------------------------------------------
\* C12: between events, the timer handle is set if and only if lastArgs is.
C12_TimerIffArgs == (timeoutId # Null) <=> (lastArgs # Null)

\* ---- C13 -----------------------------------------------------------------
\* The timer scheduled at position m was still pending when the leading-edge
\* call at position j was made.
PendingAt(m, j) ==
  /\ m < j
  /\ hist[m].op = "timeout"
  /\ NoneBetween("cancel", m, j)
  /\ \A k \in (m + 1)..(j - 1) :
        /\ ~(hist[k].op = "fire" /\ hist[k].args = hist[m].args)
        /\ ~(hist[k].op = "call" /\ hist[k].br = "leading")

\* C13: a wrapper call that takes the leading branch invokes func once with
\* its own arguments and leaves no timer, no lastArgs and lastCallTime = now;
\* a timer that was pending at the call never fires.
C13_LeadingPostcondition ==
  \A j \in At("call") :
     hist[j].br = "leading" =>
        /\ j + 1 <= Len(hist)
        /\ hist[j + 1] = Event("fn", hist[j].t, hist[j].args, "sync", 0)
        /\ Cardinality({k \in At("fn") : hist[k].args = hist[j].args}) = 1
        /\ (Len(hist) = j + 1 =>
              /\ timeoutId = Null
              /\ timers = {}
              /\ lastArgs = Null
              /\ lastCallTime = hist[j].t)
        /\ \A m \in At("timeout") :
              PendingAt(m, j) =>
                 \A k \in At("fire") : k > j => hist[k].args # hist[m].args

\* ---- C14 -----------------------------------------------------------------
\* C14: the host holds at most one live timer of the wrapper, and timeoutId
\* is the handle of exactly that timer.
C14_OneLiveTimer ==
  /\ Cardinality(timers) <= 1
  /\ (timeoutId = Null <=> timers = {})
  /\ \A tm \in timers : tm.id = timeoutId

\* A timer is live that was scheduled by a call func made while it was being
\* invoked, after an earlier timer of the wrapper.
C14_Witness ==
  /\ timers # {}
  /\ \E j \in At("call") :
        /\ j >= 2
        /\ j + 1 <= Len(hist)
        /\ hist[j - 1].op = "fn"
        /\ hist[j + 1].op = "timeout"
        /\ hist[j + 1].args = timeoutId
        /\ timeoutId >= 2

\* ---- C15 -----------------------------------------------------------------
\* C15: when the timer fires at tf, func is invoked with the arguments of the
\* call that scheduled it; when the callback is done lastCallTime = tf and
\* neither a handle nor lastArgs is left; a wrapper call at tf + d with
\* 0 < d < wait, with no invocation of func and no cancel() since the firing,
\* is not a leading-edge call.
C15_TimerFiringStep ==
  \A f \in At("fire") :
     /\ f + 1 <= Len(hist)
     /\ hist[f + 1] = Event("fn", hist[f].t, hist[SchedulerOf(f)].args,
                            "timer", 0)
     /\ (Len(hist) = f + 1 =>
           /\ lastCallTime = hist[f].t
           /\ timeoutId = Null
           /\ lastArgs = Null)
     /\ \A j \in At("call") :
           ( /\ j > f + 1
             /\ hist[j].t > hist[f].t
             /\ hist[j].t < hist[f].t + wait
             /\ NoneBetween("cancel", f, j)
             /\ NoneBetween("fn", f + 1, j) ) => hist[j].br # "leading"

\* ---- C16 -----------------------------------------------------------------
\* Positions i < j of the log hold two invocations of func with none between.
NextInvocation(i, j) ==
  /\ i < j
  /\ hist[i].op = "fn"
  /\ hist[j].op = "fn"
  /\ NoneBetween("fn", i, j)

\* C16 as stated: lastCallTime at an invocation of func, which is the time
\* logged for it, is at least lastCallTime at the invocation before, whatever
\* happened in between.
C16_Monotone ==
  \A j \in At("fn") : \A i \in At("fn") :
     NextInvocation(i, j) => hist[i].t <= hist[j].t

\* C16 amended: a step that invokes func leaves lastCallTime at the clock
\* reading of the invocation, and that is at least lastCallTime at the
\* invocation before unless the wall clock was set back in between.
C16_MonotoneSteadyClock ==
  [][ \A j \in (Len(hist) + 1)..Len(hist') :
         hist'[j].op = "fn" =>
            /\ hist'[j].t >= now
            /\ hist'[j].t <= now'
            /\ (j = Len(hist') => lastCallTime' = hist'[j].t)
            /\ \A i \in At("fn") :
                  (NoneBetween("fn", i, Len(hist) + 1) /\ ~setBack)
                     => hist[i].t <= hist'[j].t ]_vars

\* func was invoked, cancel() reset lastCallTime to 0, a deferred call was
\* made, and func was invoked again at a later time.
C16_Witness ==
  \E j \in At("fn") : \E i \in At("fn") : \E c \in At("cancel") :
     /\ NextInvocation(i, j)
     /\ i < c
     /\ c < j
     /\ hist[i].t < hist[j].t
     /\ \E k \in At("call") : i < k /\ k < j /\ hist[k].br # "leading"

\* ---- C17 -----------------------------------------------------------------
\* C17: a wrapper call made when Date.now() is below lastCallTime takes the
\* leading branch and invokes func before it returns; and every delay the
\* wrapper ever gave to setTimeout is above 0 and at most wait, whatever the
\* clock did.
C17_ClockGuard ==
  /\ [][ (ncalls' = ncalls + 1 /\ now < lastCallTime) =>
           /\ hist' = Append(Append(hist,
                         Event("call", now, ncalls + 1, "leading", 0)),
                         Event("fn", now, ncalls + 1, "sync", 0))
           /\ lastCallTime' = now
           /\ timers' = {} ]_vars
  /\ [](\A m \in At("timeout") : 0 < hist[m].n /\ hist[m].n <= wait)

\* The clock was set back below the time of the last invocation of func, and
\* the next call invoked func at once; a timer was scheduled after that.
C17_Witness ==
  \E i \in At("fn") : \E j \in At("call") : \E m \in At("timeout") :
     /\ i < j
     /\ j < m
     /\ hist[j].t < hist[i].t
     /\ hist[j].br = "leading"
     /\ NoneBetween("fn", i, j)
     /\ NoneBetween("cancel", i, j)

\* ---- C18 -----------------------------------------------------------------
\* C18: every firing of a timer invokes func once with the arguments of the
\* call that scheduled the timer; a call func makes while the timer callback
\* invokes it is not invoked synchronously and schedules a new timer, whose
\* firing falls under the first part.
C18_ReentrantDelivery ==
  /\ [](\A f \in At("fire") :
          /\ f + 1 <= Len(hist)
          /\ hist[f + 1] = Event("fn", hist[f].t, hist[SchedulerOf(f)].args,
                                 "timer", 0)
          /\ Cardinality({k \in At("fn") :
                            hist[k].args = hist[SchedulerOf(f)].args}) = 1)
  /\ [][ (/\ Len(hist') >= Len(hist) + 3
          /\ hist'[Len(hist) + 1].op = "fire"
          /\ hist'[Len(hist) + 3].op = "call") =>
           /\ hist'[Len(hist) + 3] = Event("call", now, ncalls + 1,
                                           "deferred", 0)
           /\ Len(hist') = Len(hist) + 4
           /\ hist'[Len(hist) + 4].op = "timeout"
           /\ timeoutId' = hist'[Len(hist) + 4].args
           /\ timers' # {} ]_vars

\* ---- C19 -----------------------------------------------------------------
\* The deferred call at position j was discarded at position d > j, by
\* cancel() or by a leading-edge call, before its timer had fired.
DiscardedAt(j, d) ==
  /\ j < d
  /\ hist[j].op = "call"
  /\ hist[j].br = "deferred"
  /\ \/ hist[d].op = "cancel"
     \/ hist[d].op = "call" /\ hist[d].br = "leading"
  /\ \A k \in (j + 2)..(d - 1) :
        ~(hist[k].op = "fire" /\ hist[k].args = hist[j + 1].args)

\* C19: every invocation of func is given the arguments of one wrapper call
\* made before or being made, no call's arguments are given to func twice,
\* and the arguments of a deferred call that was discarded are never given
\* to func.
C19_NoDuplicateNoStale ==
  /\ \A k \in At("fn") :
        /\ Cardinality({j \in At("call") :
                          j < k /\ hist[j].args = hist[k].args}) = 1
        /\ \A i \in At("fn") : hist[i].args = hist[k].args => i = k
  /\ \A j \in At("call") :
        (hist[j].br = "deferred" /\ \E d \in Idx : DiscardedAt(j, d))
           => \A k \in At("fn") : hist[k].args # hist[j].args

\* One deferred call was discarded by cancel(), another by a leading-edge
\* call, and after both a timer fired and func was invoked from it.
C19_Witness ==
  \E c \in At("cancel") : \E l \in At("call") : \E k \in At("fn") :
     /\ hist[l].br = "leading"
     /\ \E j \in At("call") : DiscardedAt(j, c)
     /\ \E j \in At("call") : DiscardedAt(j, l) /\ NoneBetween("cancel", j, l)
     /\ k > c
     /\ k > l + 1
     /\ hist[k].br = "timer"

\* ---- C20 -----------------------------------------------------------------
\* The argument lists wrapper calls pass in one run.
MaxArgs == MaxOps + MaxReenter

\* A wrapper call with arguments a took the deferred branch.
Deferred(a) ==
  \E j \in At("call") : hist[j].args = a /\ hist[j].br = "deferred"

\* func was invoked with a, or the deferred call with arguments a was
\* discarded by cancel() or by a leading-edge call before its timer fired.
Resolved(a) ==
  \/ \E k \in At("fn") : hist[k].args = a
  \/ \E j \in At("call") :
        hist[j].args = a /\ \E d \in Idx : DiscardedAt(j, d)

\* C20: when the host runs due timers, every call that scheduled a deferred
\* invocation is resolved in the end, and from some point on no timer is
\* pending.
C20_TrailingLiveness ==
  /\ \A a \in 1..MaxArgs : Deferred(a) ~> Resolved(a)
  /\ <>[](timeoutId = Null /\ timers = {})
====
